---------------------------- MODULE Spec2Model ----------------------------
(***************************************************************************)
(* Model of src/memory.h: MyUniquePtr, ControlBlock, MySharedPtr and       *)
(* MyWeakPtr.                                                              *)
(*                                                                         *)
(* Objects live in numbered storage slots; a slot is either dead (no       *)
(* object constructed in it) or holds an object with the fields of the     *)
(* class.  Pointers are indices, 0 is nullptr.  Control block c is the     *)
(* c-th block allocated by `new ControlBlock` and resource c is the raw    *)
(* pointer adopted together with it; the storage of a freed block is not   *)
(* handed out again within a run.                                          *)
(*                                                                         *)
(* size_t counters: a value n >= 0 stands for itself and a value n < 0     *)
(* stands for 2^64 + n (the result of wrapping below zero), so ++ and --   *)
(* are exact modulo 2^64 inside the windows CountRange and WeakRange.       *)
(*                                                                         *)
(* Undefined behaviour: a call through a null control-block pointer does   *)
(* not return (the program faults at address 0), so the operation that     *)
(* makes it has no successor state; NullCall tells when that happens.  A   *)
(* read of a freed block yields any value of the counter's window and a    *)
(* write to a freed block is lost.                                         *)
(***************************************************************************)
EXTENDS Integers, FiniteSets, Sequences, TLC

(* ------------------------------ bounds -------------------------------- *)
NumShared == 2
NumSharers == 3
NumWeak == 2
NumBlocks == 2
MaxCount == 3
MaxWeakCount == 2
MaxWrap == 1
MaxEvents == 2
NumUnique == 3
NumObjects == 3

SharedIds == 1..NumShared
\* the slots of SpecCopies, which makes NumSharers - 1 copies of one pointer
SharerIds == 1..NumSharers
SharedSlots == SharedIds \cup SharerIds
WeakIds == 1..NumWeak
Blocks == 1..NumBlocks
\* the windows of strong_ref and of weak_ref
CountRange == (0 - MaxWrap)..MaxCount
WeakRange == (0 - MaxWrap)..MaxWeakCount

VARIABLES
    sp,       \* sp[s]: the MySharedPtr in slot s: [live, ptr, cb]
    wp,       \* wp[w]: the MyWeakPtr in slot w: [live, ptr, cb]
    heap,     \* heap[c]: control block c: [st, strong_ref, weak_ref, frees]
    deleted,  \* deleted[r]: how often the deleter was invoked on resource r
    up,       \* up[u]: the MyUniquePtr in slot u: [live, arr, ptr]
    obj       \* obj[r]: resource r of the exclusive pointers

vars == <<sp, wp, heap, deleted, up, obj>>
sharedVars == <<sp, wp, heap, deleted>>
uniqueVars == <<up, obj>>

(* A slot without an object, and an object with fields ptr and cb. *)
Dead == [live |-> FALSE, ptr |-> 0, cb |-> 0]
Ptr(p, c) == [live |-> TRUE, ptr |-> p, cb |-> c]

(* ------------------------- ControlBlock ------------------------------- *)
Unallocated == [st |-> "unalloc", strong_ref |-> 0, weak_ref |-> 0, frees |-> 0]

\* ControlBlock(): strong_ref(1), weak_ref(0)
NewControlBlock == [st |-> "live", strong_ref |-> 1, weak_ref |-> 0, frees |-> 0]

\* delete this
DeleteThis(b) == [b EXCEPT !.st = "freed", !.frees = @ + 1]

incrementStrongRef(b) == [b EXCEPT !.strong_ref = @ + 1]

decrementStrongRef(b) ==
    LET d == [b EXCEPT !.strong_ref = @ - 1]
    IN  IF d.strong_ref = 0 /\ d.weak_ref = 0 THEN DeleteThis(d) ELSE d

incrementWeakRef(b) == [b EXCEPT !.weak_ref = @ + 1]

\* decrementWeakRef as it would be if it also counted down strong_ref
decrementWeakRef_touchesStrong(b) ==
    LET d == [b EXCEPT !.weak_ref = @ - 1, !.strong_ref = @ - 1]
    IN  IF d.strong_ref = 0 /\ d.weak_ref = 0 THEN DeleteThis(d) ELSE d

decrementWeakRef(b) ==
    LET d == [b EXCEPT !.weak_ref = @ - 1]
    IN  IF d.strong_ref = 0 /\ d.weak_ref = 0 THEN DeleteThis(d) ELSE d

(* What the memory of block c holds when a method runs through pointer c:  *)
(* the block itself while it is live, anything once it is freed.           *)
Contents(c) ==
    IF heap[c].st = "live" THEN {heap[c]}
    ELSE {[st |-> "live", strong_ref |-> s, weak_ref |-> w, frees |-> heap[c].frees] :
             s \in CountRange, w \in WeakRange}

\* a member call through control-block pointer c dereferences nullptr
NullCall(c) == c = 0

\* getStrongRef() through pointer c: the values the call can return
getStrongRef(c) ==
    IF NullCall(c) THEN {} ELSE {b.strong_ref : b \in Contents(c)}

(* The block left behind by a method that turned its contents into b. *)
Stored(c, b) ==
    IF heap[c].st = "live" THEN b
    ELSE [st |-> "freed", strong_ref |-> 0, weak_ref |-> 0, frees |-> b.frees]

(* The heaps that cb->m() can leave, for a method m of ControlBlock. *)
Call(c, m(_)) ==
    IF NullCall(c) THEN {}
    ELSE {[heap EXCEPT ![c] = Stored(c, m(b))] : b \in Contents(c)}

\* a member call through control-block pointer c uses a freed block
DanglingCall(c) == c # 0 /\ heap[c].st = "freed"

(* The counters of every live block stay inside the modelled window. *)
InWindow(h) ==
    \A c \in Blocks :
        /\ h[c].frees <= MaxEvents
        /\ h[c].st = "live" =>
              h[c].strong_ref \in CountRange /\ h[c].weak_ref \in WeakRange

\* Deleter: default_delete<T>::operator()(ptr); delete nullptr does nothing
Delete(p) == IF p = 0 THEN deleted ELSE [deleted EXCEPT ![p] = @ + 1]

(* ---------------------------- MySharedPtr ----------------------------- *)
\* MySharedPtr(): ptr(nullptr), cb(nullptr)
SharedDefault(s) ==
    /\ ~sp[s].live
    /\ sp' = [sp EXCEPT ![s] = Ptr(0, 0)]
    /\ UNCHANGED <<wp, heap, deleted, uniqueVars>>

\* explicit MySharedPtr(T* ptr): ptr(ptr), cb(new ControlBlock())
SharedFromRaw(s) ==
    /\ ~sp[s].live
    /\ \E c \in Blocks :
          /\ heap[c].st = "unalloc"
          /\ \A d \in Blocks : heap[d].st = "unalloc" => c <= d
          /\ heap' = [heap EXCEPT ![c] = NewControlBlock]
          /\ sp' = [sp EXCEPT ![s] = Ptr(c, c)]
    /\ UNCHANGED <<wp, deleted, uniqueVars>>

\* MySharedPtr(const MySharedPtr& other)
SharedCopy(s, o) ==
    /\ ~sp[s].live /\ sp[o].live
    /\ sp' = [sp EXCEPT ![s] = Ptr(sp[o].ptr, sp[o].cb)]
    /\ heap' \in Call(sp[o].cb, incrementStrongRef)
    /\ InWindow(heap')
    /\ UNCHANGED <<wp, deleted, uniqueVars>>

\* operator=(const MySharedPtr& other)
SharedCopyAssign(s, o) ==
    /\ sp[s].live /\ sp[o].live
    /\ IF s # o
       THEN /\ sp' = [sp EXCEPT ![s] = Ptr(sp[o].ptr, sp[o].cb)]
            /\ heap' \in Call(sp[o].cb, incrementStrongRef)
            /\ InWindow(heap')
       ELSE /\ UNCHANGED <<sp, heap>>
    /\ UNCHANGED <<wp, deleted, uniqueVars>>

\* MySharedPtr(MySharedPtr&& other)
SharedMove(s, o) ==
    /\ ~sp[s].live /\ sp[o].live
    /\ sp' = [sp EXCEPT ![s] = Ptr(sp[o].ptr, sp[o].cb), ![o] = Ptr(0, 0)]
    /\ UNCHANGED <<wp, heap, deleted, uniqueVars>>

\* operator=(MySharedPtr&& other)
SharedMoveAssign(s, o) ==
    /\ sp[s].live /\ sp[o].live
    /\ IF s # o
       THEN sp' = [sp EXCEPT ![s] = Ptr(sp[o].ptr, sp[o].cb), ![o] = Ptr(0, 0)]
       ELSE UNCHANGED sp
    /\ UNCHANGED <<wp, heap, deleted, uniqueVars>>

\* use_count(): cb ? cb->getStrongRef() : 0   (the values the call can return)
use_count(p) == IF p.cb # 0 THEN getStrongRef(p.cb) ELSE {0}

\* explicit operator bool(): get() != nullptr
SharedBool(p) == p.ptr # 0

\* the test of reset() as it would be without the `- 1`
ResetFires_atZero(n) == n = 0

\* reset(): the test `use_count() - 1 == 0 || cb == nullptr` on a use_count of n
ResetFires(n) == n - 1 = 0

(* reset(T* newPtr = nullptr) on the object p: the pairs <<heap, deleted>>   *)
(* it can leave.  newPtr is not used by the code; ptr and cb are not changed. *)
SharedResetOutcomes(p) ==
    IF p.cb # 0
    THEN {<<h, IF ResetFires(n) THEN Delete(p.ptr) ELSE deleted>> :
             h \in Call(p.cb, decrementStrongRef), n \in use_count(p)}
    ELSE {<<heap, deleted>>}

InBounds(h, d) == InWindow(h) /\ \A r \in Blocks : d[r] <= MaxEvents

SharedReset(s) ==
    /\ sp[s].live
    /\ \E out \in SharedResetOutcomes(sp[s]) :
          /\ InBounds(out[1], out[2])
          /\ heap' = out[1]
          /\ deleted' = out[2]
    /\ UNCHANGED <<sp, wp, uniqueVars>>

\* ~MySharedPtr(): reset(); the object is gone afterwards
SharedDestroy(s) ==
    /\ sp[s].live
    /\ \E out \in SharedResetOutcomes(sp[s]) :
          /\ InBounds(out[1], out[2])
          /\ heap' = out[1]
          /\ deleted' = out[2]
    /\ sp' = [sp EXCEPT ![s] = Dead]
    /\ UNCHANGED <<wp, uniqueVars>>

\* owner_before(other): cb->getStrongRef() < other.cb->getStrongRef() on size_t
ULess(a, b) == IF (a < 0) = (b < 0) THEN a < b ELSE b < 0

owner_before(p, q) ==
    {ULess(a, b) : a \in getStrongRef(p.cb), b \in getStrongRef(q.cb)}

\* unique(): cb->getStrongRef() == 1
unique(p) == {a = 1 : a \in getStrongRef(p.cb)}

(* ----------------------------- MyWeakPtr ------------------------------ *)
\* MyWeakPtr(): ptr(nullptr), cb(nullptr)
WeakDefault(w) ==
    /\ ~wp[w].live
    /\ wp' = [wp EXCEPT ![w] = Ptr(0, 0)]
    /\ UNCHANGED <<sp, heap, deleted, uniqueVars>>

\* explicit MyWeakPtr(const MySharedPtr<T>& shared_ptr)
WeakFromShared(w, s) ==
    /\ ~wp[w].live /\ sp[s].live
    /\ wp' = [wp EXCEPT ![w] = Ptr(sp[s].ptr, sp[s].cb)]
    /\ heap' \in Call(sp[s].cb, incrementWeakRef)
    /\ InWindow(heap')
    /\ UNCHANGED <<sp, deleted, uniqueVars>>

\* MyWeakPtr(const MyWeakPtr& other)
WeakCopy(w, o) ==
    /\ ~wp[w].live /\ wp[o].live
    /\ wp' = [wp EXCEPT ![w] = Ptr(wp[o].ptr, wp[o].cb)]
    /\ heap' \in Call(wp[o].cb, incrementWeakRef)
    /\ InWindow(heap')
    /\ UNCHANGED <<sp, deleted, uniqueVars>>

\* operator=(const MyWeakPtr& other): increments through its own cb, then adopts
WeakCopyAssign(w, o) ==
    /\ wp[w].live /\ wp[o].live
    /\ IF w # o
       THEN /\ heap' \in Call(wp[w].cb, incrementWeakRef)
            /\ InWindow(heap')
            /\ wp' = [wp EXCEPT ![w] = Ptr(wp[o].ptr, wp[o].cb)]
       ELSE /\ UNCHANGED <<wp, heap>>
    /\ UNCHANGED <<sp, deleted, uniqueVars>>

(* reset() on the weak object p: ptr = nullptr; cb->decrementWeakRef();    *)
(* cb = nullptr.  The heaps it can leave.                                  *)
WeakResetOutcomes(p) == Call(p.cb, decrementWeakRef)

\* operator=(const MySharedPtr<T>& shared_ptr)
WeakAssignShared(w, s) ==
    /\ wp[w].live /\ sp[s].live
    /\ IF sp[s].ptr = 0
       THEN /\ heap' \in WeakResetOutcomes(wp[w])
            /\ wp' = [wp EXCEPT ![w] = Ptr(0, 0)]
       ELSE /\ heap' \in Call(sp[s].cb, incrementWeakRef)
            /\ wp' = [wp EXCEPT ![w] = Ptr(sp[s].ptr, sp[s].cb)]
    /\ InWindow(heap')
    /\ UNCHANGED <<sp, deleted, uniqueVars>>

WeakReset(w) ==
    /\ wp[w].live
    /\ heap' \in WeakResetOutcomes(wp[w])
    /\ InWindow(heap')
    /\ wp' = [wp EXCEPT ![w] = Ptr(0, 0)]
    /\ UNCHANGED <<sp, deleted, uniqueVars>>

\* ~MyWeakPtr(): reset(); the object is gone afterwards
WeakDestroy(w) ==
    /\ wp[w].live
    /\ heap' \in WeakResetOutcomes(wp[w])
    /\ InWindow(heap')
    /\ wp' = [wp EXCEPT ![w] = Dead]
    /\ UNCHANGED <<sp, deleted, uniqueVars>>

\* expired(): cb->getStrongRef() == 0   (the values the call can return)
expired(p) == {n = 0 : n \in getStrongRef(p.cb)}

\* operator bool(): !expired()
WeakBool(p) == {~e : e \in expired(p)}

(* The MySharedPtr built from the weak pointer in lock(): memory.h declares  *)
(* no constructor of MySharedPtr from a MyWeakPtr; it shares the control   *)
(* block and counts one more strong owner.                                 *)
SharedFromWeak(p) == Call(p.cb, incrementStrongRef)

\* lock(): expired() ? MySharedPtr<T>() : MySharedPtr<T>(this object), into slot s
Lock(w, s) ==
    /\ wp[w].live /\ ~sp[s].live
    /\ \E e \in expired(wp[w]) :
          IF e
          THEN /\ sp' = [sp EXCEPT ![s] = Ptr(0, 0)]
               /\ UNCHANGED heap
          ELSE /\ sp' = [sp EXCEPT ![s] = Ptr(wp[w].ptr, wp[w].cb)]
               /\ heap' \in SharedFromWeak(wp[w])
               /\ InWindow(heap')
    /\ UNCHANGED <<wp, deleted, uniqueVars>>

(* ---------------------------- MyUniquePtr ----------------------------- *)
(* up[u] = [live, arr, ptr]: arr tells the specialisation, MyUniquePtr<T[]>  *)
(* or MyUniquePtr<T>.  obj[r] = [st, arr, del, delArr, released]: whether    *)
(* resource r was allocated by new T[n] or new T, how often delete and       *)
(* delete[] ran on it, and whether release() handed it to the caller.  A     *)
(* reference handed out by release() stays with the caller.                  *)
UniqueIds == 1..NumUnique
Objects == 1..NumObjects

DeadU == [live |-> FALSE, arr |-> FALSE, ptr |-> 0]
UPtr(a, p) == [live |-> TRUE, arr |-> a, ptr |-> p]
NoObject == [st |-> "unalloc", arr |-> FALSE, del |-> 0, delArr |-> 0, released |-> FALSE]
NewObject(a) == [st |-> "alloc", arr |-> a, del |-> 0, delArr |-> 0, released |-> FALSE]

\* the resource the next new-expression returns
FreshObject(r) ==
    /\ obj[r].st = "unalloc"
    /\ \A q \in Objects : obj[q].st = "unalloc" => r <= q

(* deleter(ptr): default_delete<T[]> runs delete[], default_delete<T> runs  *)
(* delete; on nullptr neither does anything.                                *)
default_delete(o, a, p) ==
    IF p = 0 THEN o
    ELSE IF a THEN [o EXCEPT ![p].delArr = @ + 1]
    ELSE [o EXCEPT ![p].del = @ + 1]

ObjectsInBounds(o) ==
    \A r \in Objects : o[r].del <= MaxEvents /\ o[r].delArr <= MaxEvents

\* explicit MyUniquePtr(T* ptr = nullptr), default argument
UniqueDefault(u, a) ==
    /\ ~up[u].live
    /\ up' = [up EXCEPT ![u] = UPtr(a, 0)]
    /\ UNCHANGED <<obj, sharedVars>>

\* make_my_unique<T>(args...): MyUniquePtr<T>(new T(args...))
MakeUnique(u) ==
    /\ ~up[u].live
    /\ \E r \in Objects :
          /\ FreshObject(r)
          /\ obj' = [obj EXCEPT ![r] = NewObject(FALSE)]
          /\ up' = [up EXCEPT ![u] = UPtr(FALSE, r)]
    /\ UNCHANGED sharedVars

\* make_my_unique<T[]>(n): MyUniquePtr<T[]>(new T[n]())
MakeUniqueArray(u) ==
    /\ ~up[u].live
    /\ \E r \in Objects :
          /\ FreshObject(r)
          /\ obj' = [obj EXCEPT ![r] = NewObject(TRUE)]
          /\ up' = [up EXCEPT ![u] = UPtr(TRUE, r)]
    /\ UNCHANGED sharedVars

\* the move constructor as it would be without `other.ptr = nullptr`
UniqueMove_keepsSource(u, o) ==
    /\ ~up[u].live /\ up[o].live
    /\ up' = [up EXCEPT ![u] = UPtr(up[o].arr, up[o].ptr)]
    /\ UNCHANGED <<obj, sharedVars>>

\* MyUniquePtr(MyUniquePtr&& other): ptr(other.ptr), other.ptr = nullptr
UniqueMove(u, o) ==
    /\ ~up[u].live /\ up[o].live
    /\ up' = [up EXCEPT ![u] = UPtr(up[o].arr, up[o].ptr), ![o].ptr = 0]
    /\ UNCHANGED <<obj, sharedVars>>

\* reset(newPtr) as it would be without the test `ptr != newPtr`
UniqueResetResult_noTest(p, newPtr) ==
    <<newPtr, default_delete(obj, p.arr, p.ptr)>>

(* reset(newPtr) on the object p: <<ptr after the call, obj after the call>> *)
UniqueResetResult(p, newPtr) ==
    IF p.ptr # newPtr
    THEN <<newPtr, default_delete(obj, p.arr, p.ptr)>>
    ELSE <<p.ptr, obj>>

\* operator=(MyUniquePtr&& other)
UniqueMoveAssign(u, o) ==
    /\ up[u].live /\ up[o].live /\ up[u].arr = up[o].arr
    /\ IF u # o
       THEN LET r == UniqueResetResult(up[u], up[o].ptr)
            IN  /\ up' = [up EXCEPT ![u].ptr = r[1], ![o].ptr = 0]
                /\ obj' = r[2]
       ELSE UNCHANGED <<up, obj>>
    /\ ObjectsInBounds(obj')
    /\ UNCHANGED sharedVars

\* ~MyUniquePtr(): reset(); the object is gone afterwards
UniqueDestroy(u) ==
    /\ up[u].live
    /\ obj' = UniqueResetResult(up[u], 0)[2]
    /\ ObjectsInBounds(obj')
    /\ up' = [up EXCEPT ![u] = DeadU]
    /\ UNCHANGED sharedVars

\* release() as it would be if it ran the deleter on what it hands out
UniqueRelease_deletes(u) ==
    /\ up[u].live
    /\ up' = [up EXCEPT ![u].ptr = 0]
    /\ obj' = IF up[u].ptr = 0 THEN obj
              ELSE [default_delete(obj, up[u].arr, up[u].ptr)
                       EXCEPT ![up[u].ptr].released = TRUE]
    /\ UNCHANGED sharedVars

\* release(): the caller receives ptr; ptr = nullptr
UniqueRelease(u) ==
    /\ up[u].live
    /\ up' = [up EXCEPT ![u].ptr = 0]
    /\ obj' = IF up[u].ptr = 0 THEN obj
              ELSE [obj EXCEPT ![up[u].ptr].released = TRUE]
    /\ UNCHANGED sharedVars

\* reset(): newPtr = nullptr
UniqueReset(u) ==
    /\ up[u].live
    /\ LET r == UniqueResetResult(up[u], 0)
       IN  /\ up' = [up EXCEPT ![u].ptr = r[1]]
           /\ obj' = r[2]
    /\ ObjectsInBounds(obj')
    /\ UNCHANGED sharedVars

\* reset(newPtr) with the reference the pointer already holds
UniqueResetSame(u) ==
    /\ up[u].live
    /\ LET r == UniqueResetResult(up[u], up[u].ptr)
       IN  /\ up' = [up EXCEPT ![u].ptr = r[1]]
           /\ obj' = r[2]
    /\ ObjectsInBounds(obj')
    /\ UNCHANGED sharedVars

\* reset(newPtr) with a resource the caller has just allocated
UniqueResetNew(u) ==
    /\ up[u].live
    /\ \E n \in Objects :
          /\ FreshObject(n)
          /\ LET r == UniqueResetResult(up[u], n)
             IN  /\ up' = [up EXCEPT ![u].ptr = r[1]]
                 /\ obj' = [r[2] EXCEPT ![n] = NewObject(up[u].arr)]
    /\ ObjectsInBounds(obj')
    /\ UNCHANGED sharedVars

\* swap(other) as it would be if it only copied other.ptr
UniqueSwap_oneWay(u, o) ==
    /\ up[u].live /\ up[o].live /\ up[u].arr = up[o].arr
    /\ up' = [up EXCEPT ![u].ptr = up[o].ptr]
    /\ UNCHANGED <<obj, sharedVars>>

\* swap(other): std::swap(ptr, other.ptr)
UniqueSwap(u, o) ==
    /\ up[u].live /\ up[o].live /\ up[u].arr = up[o].arr
    /\ up' = [up EXCEPT ![u].ptr = up[o].ptr, ![o].ptr = up[u].ptr]
    /\ UNCHANGED <<obj, sharedVars>>

\* get()
UniqueGet(p) == p.ptr

\* explicit operator bool(): ptr != nullptr
UniqueBool(p) == p.ptr # 0

(* --------------------------- specification ---------------------------- *)
Init ==
    /\ sp = [s \in SharedSlots |-> Dead]
    /\ wp = [w \in WeakIds |-> Dead]
    /\ heap = [c \in Blocks |-> Unallocated]
    /\ deleted = [r \in Blocks |-> 0]
    /\ up = [u \in UniqueIds |-> DeadU]
    /\ obj = [r \in Objects |-> NoObject]

Next ==
    \/ \E s \in SharedIds : SharedDefault(s)
    \/ \E s \in SharedIds : SharedFromRaw(s)
    \/ \E s, o \in SharedIds : SharedCopy(s, o)
    \/ \E s, o \in SharedIds : SharedCopyAssign(s, o)
    \/ \E s, o \in SharedIds : SharedMove(s, o)
    \/ \E s, o \in SharedIds : SharedMoveAssign(s, o)
    \/ \E s \in SharedIds : SharedReset(s)
    \/ \E s \in SharedIds : SharedDestroy(s)
    \/ \E w \in WeakIds : WeakDefault(w)
    \/ \E w \in WeakIds, s \in SharedIds : WeakFromShared(w, s)
    \/ \E w, o \in WeakIds : WeakCopy(w, o)
    \/ \E w, o \in WeakIds : WeakCopyAssign(w, o)
    \/ \E w \in WeakIds, s \in SharedIds : WeakAssignShared(w, s)
    \/ \E w \in WeakIds : WeakReset(w)
    \/ \E w \in WeakIds : WeakDestroy(w)
    \/ \E w \in WeakIds, s \in SharedIds : Lock(w, s)

Spec == Init /\ [][Next]_vars

NextUnique ==
    \/ \E u \in UniqueIds, a \in BOOLEAN : UniqueDefault(u, a)
    \/ \E u \in UniqueIds : MakeUnique(u)
    \/ \E u \in UniqueIds : MakeUniqueArray(u)
    \/ \E u, o \in UniqueIds : UniqueMove(u, o)
    \/ \E u, o \in UniqueIds : UniqueMoveAssign(u, o)
    \/ \E u \in UniqueIds : UniqueDestroy(u)
    \/ \E u \in UniqueIds : UniqueRelease(u)
    \/ \E u \in UniqueIds : UniqueReset(u)
    \/ \E u \in UniqueIds : UniqueResetSame(u)
    \/ \E u \in UniqueIds : UniqueResetNew(u)
    \/ \E u, o \in UniqueIds : UniqueSwap(u, o)

SpecUnique == Init /\ [][NextUnique]_vars

(* Shared pointers that are constructed from a raw resource, copied and    *)
(* destroyed, and nothing else; weak observers come and go beside them.    *)
NextCopies ==
    \/ \E s \in SharerIds : SharedFromRaw(s)
    \/ \E s, o \in SharerIds : SharedCopy(s, o)
    \/ \E s \in SharerIds : SharedDestroy(s)
    \/ \E w \in WeakIds, s \in SharerIds : WeakFromShared(w, s)
    \/ \E w, o \in WeakIds : WeakCopy(w, o)
    \/ \E w \in WeakIds : WeakDestroy(w)

SpecCopies == Init /\ [][NextCopies]_vars

(* ------------------------------ claims -------------------------------- *)
\* the shared pointers that hold control block c
Sharers(c) == {s \in SharedSlots : sp[s].live /\ sp[s].cb = c}
\* the weak pointers that hold control block c
Observers(c) == {w \in WeakIds : wp[w].live /\ wp[w].cb = c}

(* C1: the deleter is invoked on a shared resource at most once, and only  *)
(* in the step in which strong_ref of its control block goes from 1 to 0.  *)
(* Stated for the steps through a control block that is still allocated:   *)
(* what a step through a freed block does is undefined.                    *)
C1_DeleterOnceAtLastOwner ==
    [][\A r \in Blocks :
          (deleted'[r] # deleted[r] /\ heap[r].st = "live") =>
              /\ deleted[r] = 0 /\ deleted'[r] = 1
              /\ heap[r].strong_ref = 1 /\ heap'[r].strong_ref = 0]_vars

(* C2: with one pointer made from a raw resource and N copies of it, every *)
(* remaining copy reports the number of remaining copies as its use_count  *)
(* (so each destruction lowers it by exactly 1), the deleter has not run   *)
(* while a copy remains and has run exactly once when none remains.        *)
C2_CopiesThenDestructions ==
    \A c \in Blocks :
        heap[c].st # "unalloc" =>
            LET n == Cardinality(Sharers(c))
            IN  /\ n > 0 => /\ heap[c].st = "live"
                            /\ \A s \in Sharers(c) : use_count(sp[s]) = {n}
                            /\ deleted[c] = 0
                /\ n = 0 => deleted[c] = 1

(* A resource released once after all NumSharers pointers to it are gone,  *)
(* and another one held by NumSharers pointers.                            *)
C2_Witness ==
    \E c, d \in Blocks :
        /\ heap[c].st # "unalloc" /\ Sharers(c) = {} /\ deleted[c] = 1
        /\ Cardinality(Sharers(d)) = NumSharers
        /\ \A s \in Sharers(d) : use_count(sp[s]) = {NumSharers}

(* C3: reset() on a non-empty shared pointer leaves it empty (use_count 0, *)
(* boolean test false) and lowers the use_count of every other sharer by   *)
(* exactly 1; reset() or the destructor on an empty one changes nothing.   *)
C3_ResetEmpties ==
    [][\A s \in SharedIds :
          /\ (sp[s].live /\ sp[s].cb # 0 /\ SharedReset(s)) =>
                /\ use_count(sp[s])' = {0}
                /\ ~SharedBool(sp[s])'
                /\ \A t \in Sharers(sp[s].cb) \ {s} :
                      use_count(sp[t])' = {n - 1 : n \in use_count(sp[t])}
          /\ (sp[s].live /\ sp[s].cb = 0 /\ (SharedReset(s) \/ SharedDestroy(s))) =>
                UNCHANGED <<heap, deleted>>]_vars

(* C4: once a weak pointer is expired it stays expired; it becomes expired *)
(* only in a step that resets or destroys a sharer of its control block    *)
(* and leaves no other sharer; lock() on an expired weak pointer returns   *)
(* an empty shared pointer with use_count 0.                               *)
C4_ExpiredAtLastOwner ==
    [][\A w \in WeakIds :
          (wp[w].live /\ wp'[w] = wp[w] /\ wp[w].cb # 0
             /\ heap[wp[w].cb].st = "live" /\ heap'[wp[w].cb].st = "live") =>
              /\ TRUE \in expired(wp[w]) => expired(wp[w])' = {TRUE}
              /\ (FALSE \in expired(wp[w]) /\ TRUE \in expired(wp[w])') =>
                    \E s \in Sharers(wp[w].cb) :
                        /\ SharedReset(s) \/ SharedDestroy(s)
                        /\ Sharers(wp[w].cb)' \subseteq {s}
              /\ \A s \in SharedIds :
                    (Lock(w, s) /\ expired(wp[w]) = {TRUE}) =>
                        sp'[s] = Ptr(0, 0) /\ use_count(sp[s])' = {0}]_vars

(* C5: a control block held by a live shared or weak pointer is not freed. *)
C5_HeldBlockNotFreed ==
    /\ \A s \in SharedSlots : sp[s].live /\ sp[s].cb # 0 => heap[sp[s].cb].st = "live"
    /\ \A w \in WeakIds : wp[w].live /\ wp[w].cb # 0 => heap[wp[w].cb].st = "live"

\* a step of one of the operations of MyWeakPtr that C6 lists (none changes sp)
WeakStep ==
    \/ \E w \in WeakIds, s \in SharedIds : WeakFromShared(w, s) \/ WeakAssignShared(w, s)
    \/ \E w, o \in WeakIds : WeakCopy(w, o) \/ WeakCopyAssign(w, o)
    \/ \E w \in WeakIds : WeakReset(w) \/ WeakDestroy(w)

(* C6: no operation of a weak pointer changes a strong_ref or invokes a    *)
(* deleter; and whether reset() or the destructor of a shared pointer      *)
(* invokes the deleter depends on strong_ref alone, not on weak_ref: it    *)
(* does exactly when strong_ref is 1.  Stated of every step the state      *)
(* allows.                                                                 *)
C6_WeakLeavesStrong ==
    /\ ~ENABLED (/\ WeakStep
                 /\ \/ deleted' # deleted
                    \/ \E c \in Blocks : heap'[c].strong_ref # heap[c].strong_ref)
    /\ \A s \in SharedIds :
          (sp[s].live /\ sp[s].cb # 0 /\ heap[sp[s].cb].st = "live") =>
              ~ENABLED (/\ SharedReset(s) \/ SharedDestroy(s)
                        /\ ~(deleted'[sp[s].ptr] # deleted[sp[s].ptr]
                               <=> heap[sp[s].cb].strong_ref = 1))

(* A resource released while two weak pointers observe its control block,  *)
(* which is still allocated.                                               *)
C6_Witness ==
    \E c \in Blocks :
        /\ heap[c].st = "live" /\ heap[c].strong_ref = 0 /\ heap[c].weak_ref = 2
        /\ Cardinality(Observers(c)) = 2
        /\ deleted[c] = 1

\* the exclusive pointers that hold resource r
Holders(r) == {u \in UniqueIds : up[u].live /\ up[u].ptr = r}

(* C7: on a resource of an exclusive pointer the deleter of its own kind   *)
(* (delete[] for an array, delete for a scalar) has run exactly once as    *)
(* soon as no pointer holds it any more, unless release() handed it to the *)
(* caller; it has not run while a pointer holds it, and it never runs on a *)
(* resource that release() handed out.                                     *)
C7_DeleterExactlyOnce ==
    \A r \in Objects :
        obj[r].st = "alloc" =>
            /\ obj[r].arr => obj[r].del = 0
            /\ ~obj[r].arr => obj[r].delArr = 0
            /\ obj[r].released => obj[r].del + obj[r].delArr = 0 /\ Holders(r) = {}
            /\ ~obj[r].released =>
                  obj[r].del + obj[r].delArr = (IF Holders(r) = {} THEN 1 ELSE 0)

(* A released resource that was never deleted, an array deleted once by    *)
(* delete[] and a scalar deleted once by delete.                           *)
C7_Witness ==
    \E r, a, b \in Objects :
        /\ obj[r].released /\ obj[r].del + obj[r].delArr = 0
        /\ obj[a].st = "alloc" /\ obj[a].arr /\ obj[a].delArr = 1 /\ ~obj[a].released
        /\ obj[b].st = "alloc" /\ ~obj[b].arr /\ obj[b].del = 1 /\ ~obj[b].released

(* C8: a move construction or move assignment leaves the source empty and  *)
(* the destination holding what the source held, and does not run the      *)
(* deleter on the transferred resource; the destructor of an empty         *)
(* (moved-from) pointer runs no deleter.                                   *)
C8_MoveTransfers ==
    [][\A u, o \in UniqueIds :
          /\ UniqueMove(u, o) =>
                /\ UniqueGet(up'[o]) = 0 /\ ~UniqueBool(up'[o])
                /\ UniqueGet(up'[u]) = UniqueGet(up[o])
                /\ obj' = obj
          /\ (u # o /\ UniqueMoveAssign(u, o)) =>
                /\ UniqueGet(up'[o]) = 0 /\ ~UniqueBool(up'[o])
                /\ UniqueGet(up'[u]) = UniqueGet(up[o])
                /\ up[o].ptr # 0 => obj'[up[o].ptr] = obj[up[o].ptr]
          /\ (up[o].live /\ up[o].ptr = 0 /\ UniqueDestroy(o)) =>
                obj' = obj]_vars

(* The state a move assignment leaves: an empty source beside a            *)
(* destination that holds an undeleted resource, the destination's former  *)
(* resource deleted once.                                                  *)
C8_Witness ==
    \E u, o \in UniqueIds, q \in Objects :
        /\ u # o /\ up[u].live /\ up[o].live /\ up[u].arr = up[o].arr
        /\ up[o].ptr = 0 /\ up[u].ptr # 0
        /\ obj[up[u].ptr].del + obj[up[u].ptr].delArr = 0
        /\ q # up[u].ptr /\ obj[q].arr = up[u].arr /\ obj[q].del + obj[q].delArr = 1

\* shared pointers on which owner_before is defined
Owning(s) == sp[s].live /\ sp[s].cb # 0 /\ heap[sp[s].cb].st = "live"

(* C9: owner_before is a strict total order on the control blocks:         *)
(* never true between two holders of one block, exactly one way round      *)
(* between holders of distinct blocks, transitive; and a step that changes *)
(* neither pointer does not change its result.                             *)
C9_OwnerBeforeStrictTotal ==
    /\ [](\A a, b \in SharedSlots :
            (Owning(a) /\ Owning(b)) =>
                /\ sp[a].cb = sp[b].cb => owner_before(sp[a], sp[b]) = {FALSE}
                /\ sp[a].cb # sp[b].cb =>
                      \/ owner_before(sp[a], sp[b]) = {TRUE}
                           /\ owner_before(sp[b], sp[a]) = {FALSE}
                      \/ owner_before(sp[a], sp[b]) = {FALSE}
                           /\ owner_before(sp[b], sp[a]) = {TRUE}
                /\ \A c \in SharedSlots :
                      (Owning(c) /\ owner_before(sp[a], sp[b]) = {TRUE}
                         /\ owner_before(sp[b], sp[c]) = {TRUE}) =>
                          owner_before(sp[a], sp[c]) = {TRUE})
    /\ [][\A a, b \in SharedSlots :
            (Owning(a) /\ Owning(b) /\ Owning(a)' /\ Owning(b)'
               /\ sp'[a] = sp[a] /\ sp'[b] = sp[b]) =>
                owner_before(sp[a], sp[b])' = owner_before(sp[a], sp[b])]_vars

(* C10: strong_ref of every control block that is not freed equals the     *)
(* number of shared pointers that hold the block.                          *)
C10_StrongCountsSharers ==
    \A c \in Blocks :
        heap[c].st = "live" => heap[c].strong_ref = Cardinality(Sharers(c))

(* C11: weak_ref of every control block that is not freed equals the       *)
(* number of weak pointers that hold the block.                            *)
C11_WeakCountsObservers ==
    \A c \in Blocks :
        heap[c].st = "live" => heap[c].weak_ref = Cardinality(Observers(c))

\* a step of an operation that calls a method of control block c
Touches(c) ==
    \/ \E s \in SharedIds :
          sp[s].live /\ sp[s].cb = c /\ (SharedReset(s) \/ SharedDestroy(s))
    \/ \E s, o \in SharedIds :
          sp[o].live /\ sp[o].cb = c /\ s # o
             /\ (SharedCopy(s, o) \/ SharedCopyAssign(s, o))
    \/ \E w \in WeakIds, s \in SharedIds :
          \/ sp[s].live /\ sp[s].cb = c /\ sp[s].ptr # 0
                /\ (WeakFromShared(w, s) \/ WeakAssignShared(w, s))
          \/ sp[s].live /\ sp[s].ptr = 0 /\ wp[w].live /\ wp[w].cb = c
                /\ WeakAssignShared(w, s)
          \/ wp[w].live /\ wp[w].cb = c /\ Lock(w, s)
    \/ \E w, o \in WeakIds :
          \/ wp[o].live /\ wp[o].cb = c /\ WeakCopy(w, o)
          \/ wp[w].live /\ wp[w].cb = c /\ w # o /\ WeakCopyAssign(w, o)
    \/ \E w \in WeakIds :
          wp[w].live /\ wp[w].cb = c /\ (WeakReset(w) \/ WeakDestroy(w))

(* C12: a control block is freed once, in the step that leaves both of its *)
(* counts 0; it is not kept once both counts are 0, it is not freed while  *)
(* a count is not 0, and no operation calls through it after it is freed.  *)
C12_FreedOnceAtBothZero ==
    [][\A c \in Blocks :
          /\ heap'[c].frees # heap[c].frees =>
                /\ heap[c].st = "live" /\ heap'[c].frees = 1
                /\ heap'[c].strong_ref = 0 /\ heap'[c].weak_ref = 0
                /\ \/ heap[c].strong_ref = 1 /\ heap[c].weak_ref = 0
                   \/ heap[c].strong_ref = 0 /\ heap[c].weak_ref = 1
          /\ heap'[c].st = "live" =>
                ~(heap'[c].strong_ref = 0 /\ heap'[c].weak_ref = 0)
          /\ heap[c].st = "freed" => ~Touches(c)]_vars

(* C13: the deleter runs on the resource in the step in which strong_ref   *)
(* goes from 1 to 0, whatever weak_ref is; and for every control block     *)
(* that exists the resource has been released exactly if strong_ref is 0.  *)
C13_ReleasedIffStrongZero ==
    /\ [](\A c \in Blocks :
            heap[c].st = "live" => (deleted[c] > 0 <=> heap[c].strong_ref = 0))
    /\ [][\A c \in Blocks :
            (heap[c].st = "live" /\ heap[c].strong_ref = 1
               /\ heap'[c].strong_ref = 0) =>
                deleted'[c] = deleted[c] + 1]_vars

(* C14: the life of a control block only moves forward: once strong_ref is *)
(* 0 no step makes it anything else while the block exists, a block that   *)
(* exists never becomes unallocated again, and a freed block stays freed   *)
(* with its counts unchanged.                                              *)
C14_LifecycleForward ==
    [][\A c \in Blocks :
          /\ (heap[c].st = "live" /\ heap[c].strong_ref = 0
                /\ heap'[c].st = "live") => heap'[c].strong_ref = 0
          /\ heap[c].st # "unalloc" => heap'[c].st # "unalloc"
          /\ heap[c].st = "freed" =>
                /\ heap'[c].st = "freed"
                /\ heap'[c].strong_ref = heap[c].strong_ref
                /\ heap'[c].weak_ref = heap[c].weak_ref]_vars

(* C15: lock() on a weak pointer whose control block exists with           *)
(* strong_ref not 0 returns a non-empty shared pointer with the same       *)
(* resource and control block, makes strong_ref larger by exactly 1 (as    *)
(* the size_t it is), leaves weak_ref and everything else alone, and the   *)
(* destructor of the returned pointer brings the former strong_ref back    *)
(* without running the deleter.  Stated of every lock() the state allows.  *)
C15_LockSharesAndCounts ==
    \A w \in WeakIds, s \in SharedIds :
        (wp[w].live /\ wp[w].cb # 0 /\ heap[wp[w].cb].st = "live"
           /\ heap[wp[w].cb].strong_ref # 0 /\ ~sp[s].live) =>
            ~ENABLED (/\ Lock(w, s)
                      /\ ~(/\ sp'[s] = Ptr(wp[w].ptr, wp[w].cb)
                           /\ SharedBool(sp'[s])
                           /\ heap' = [heap EXCEPT ![wp[w].cb].strong_ref = @ + 1]
                           /\ ULess(heap[wp[w].cb].strong_ref,
                                    heap'[wp[w].cb].strong_ref)
                           /\ deleted' = deleted /\ wp' = wp
                           /\ SharedResetOutcomes(sp[s])' = {<<heap, deleted>>}))

(* C16: every resource of the exclusive pointers is held by at most one    *)
(* pointer, and a resource on which a deleter has run is held by none.     *)
C16_AtMostOneHolder ==
    \A r \in Objects :
        obj[r].st = "alloc" =>
            /\ Cardinality(Holders(r)) <= 1
            /\ obj[r].del + obj[r].delArr > 0 => Holders(r) = {}

(* Two live pointers of one kind, one holding a resource and one empty,    *)
(* beside a resource that was deleted and one that release() handed out.   *)
C16_Witness ==
    \E u, v \in UniqueIds, r, q, x \in Objects :
        /\ u # v /\ up[v].live /\ up[v].ptr = 0 /\ up[u].arr = up[v].arr
        /\ Holders(r) = {u}
        /\ obj[q].del + obj[q].delArr = 1
        /\ obj[x].released

\* how often a deleter ran on resource r, in the heap o
Deletions(o, r) == o[r].del + o[r].delArr

(* C17: reset(newRef) with a reference other than the held one runs the    *)
(* deleter once on the held resource and on nothing else, and the pointer  *)
(* then holds newRef; with the held reference it changes nothing;          *)
(* release() hands out the held reference, leaves the pointer empty and    *)
(* runs no deleter.  Stated of every such call the state allows.           *)
C17_ResetAndRelease ==
    \A u \in UniqueIds :
        up[u].live =>
            LET old == up[u].ptr
                OthersKept == \A v \in UniqueIds \ {u} : up'[v] = up[v]
                OnlyOldDeleted ==
                    \A r \in Objects :
                        obj[r].st = "alloc" =>
                            Deletions(obj', r) =
                                Deletions(obj, r) + (IF r = old THEN 1 ELSE 0)
            IN  /\ ~ENABLED (/\ UniqueResetNew(u)
                             /\ ~(/\ up'[u].ptr # old /\ up'[u].ptr # 0
                                  /\ obj[up'[u].ptr].st = "unalloc"
                                  /\ Deletions(obj', up'[u].ptr) = 0
                                  /\ OnlyOldDeleted /\ OthersKept))
                /\ old # 0 =>
                      ~ENABLED (/\ UniqueReset(u)
                                /\ ~(/\ up'[u].ptr = 0
                                     /\ OnlyOldDeleted /\ OthersKept))
                /\ old = 0 =>
                      ~ENABLED (UniqueReset(u) /\ (up' # up \/ obj' # obj))
                /\ ~ENABLED (UniqueResetSame(u) /\ (up' # up \/ obj' # obj))
                /\ ~ENABLED (/\ UniqueRelease(u)
                             /\ ~(/\ up'[u].ptr = 0 /\ ~UniqueBool(up'[u])
                                  /\ old # 0 => obj'[old].released
                                  /\ \A r \in Objects :
                                        Deletions(obj', r) = Deletions(obj, r)
                                  /\ OthersKept))

(* A pointer that holds the second resource it was given, the first one    *)
(* deleted once by its reset, beside a resource that release() handed out  *)
(* and that no deleter has touched.                                        *)
C17_Witness ==
    \E u \in UniqueIds, r, q, x \in Objects :
        /\ up[u].live /\ up[u].ptr = q /\ r < q
        /\ Deletions(obj, q) = 0 /\ Deletions(obj, r) = 1 /\ ~obj[r].released
        /\ obj[x].released /\ Deletions(obj, x) = 0 /\ Holders(x) = {}

(* C18: the counts of a control block that exists never go below 0, that   *)
(* is, neither is ever decremented at 0 and left at a wrapped size_t.      *)
C18_CountsNotBelowZero ==
    \A c \in Blocks :
        heap[c].st = "live" => heap[c].strong_ref >= 0 /\ heap[c].weak_ref >= 0

(* C19: on an empty weak pointer every operation completes and leaves all  *)
(* control blocks alone: reset() and the destructor change nothing else,   *)
(* a copy of it is empty, and lock() returns an empty shared pointer.      *)
C19_EmptyWeakIsSafe ==
    \A w \in WeakIds :
        (wp[w].live /\ wp[w].cb = 0) =>
            /\ ENABLED WeakReset(w)
            /\ ~ENABLED (WeakReset(w) /\ (heap' # heap \/ wp' # wp))
            /\ ENABLED WeakDestroy(w)
            /\ ~ENABLED (WeakDestroy(w) /\ heap' # heap)
            /\ \A v \in WeakIds :
                  ~wp[v].live =>
                      /\ ENABLED WeakCopy(v, w)
                      /\ ~ENABLED (/\ WeakCopy(v, w)
                                   /\ ~(wp'[v] = Ptr(0, 0) /\ heap' = heap))
            /\ \A s \in SharedIds :
                  ~sp[s].live =>
                      /\ ENABLED Lock(w, s)
                      /\ ~ENABLED (/\ Lock(w, s)
                                   /\ ~(sp'[s] = Ptr(0, 0) /\ heap' = heap))

(* C20: when no shared and no weak pointer is left, the deleter has run on *)
(* every resource that was adopted and every control block that was        *)
(* created has been freed.                                                 *)
C20_NoLeakAtQuiescence ==
    ((\A s \in SharedSlots : ~sp[s].live) /\ (\A w \in WeakIds : ~wp[w].live)) =>
        \A c \in Blocks :
            heap[c].st # "unalloc" => heap[c].st = "freed" /\ deleted[c] > 0

=============================================================================
